---------------------------- MODULE Spec2Model ----------------------------
(***************************************************************************)
(* Series data-transformation pipeline of the XY chart                     *)
(* (chart_types/xy_chart/utils/series.ts): value extraction, series keys,  *)
(* series splitting, aggregation over specs, and colour resolution.        *)
(*                                                                         *)
(* JavaScript values are tagged records; strings are sequences of          *)
(* one-character strings so that template rendering, concatenation and     *)
(* the relational operators are computed, not assumed.                     *)
(***************************************************************************)
EXTENDS Integers, Sequences, FiniteSets, TLC

VARIABLES
  pc,      \* position of the run under study
  idA,     \* getSeriesKey: a series identifier
  idB,     \* getSeriesKey: a second series identifier
  keyA,    \* getSeriesKey(idA, idA.groupId)
  keyB,    \* getSeriesKey(idB, idB.groupId)
  extractIn,   \* extractYAndMarkFromDatum: its arguments
  extractOut,  \* extractYAndMarkFromDatum: the datum returned, the offenders list after
  seriesCollection,  \* Map<SeriesKey, SeriesCollectionValue>, in insertion order
  colorIn,           \* getSeriesColors: palette, custom colours and overrides
  seriesColorMap,    \* getSeriesColors: Map<SeriesKey, Color> returned
  splitIn,       \* splitSeriesDataByAccessors: spec, starting xValueSums, smallMultiples
  splitDefault,  \* its result with enableVislibSeriesSort off
  splitVislib,   \* its result with enableVislibSeriesSort on
  aggIn,              \* getDataSeriesFromSpecs: seriesSpecs, deselectedDataSeries,
                      \* enableVislibSeriesSort, smallMultiples
  specIndex,          \* the specs its loop has been through
  globalDataSeries,   \* DataSeries[]
  mutatedXValueSums,  \* Map<string | number, number>
  globalXValues,      \* Set<string | number>
  globalSMVValues,    \* Set<string | number>
  globalSMHValues,    \* Set<string | number>
  isNumberArray,
  isOrdinalScale,
  orderOrdinalBinsBy, \* the ordering policy of the call, read on return
  aggOut,             \* the xValues and fallbackScale returned
  orderIn,   \* getSortedOrdinalXValues: xValues, xValueSums, orderOrdinalBinsBy
  orderOut,  \* the domain it returns
  sortedCollection,  \* getSortedDataSeriesColorsValuesMap(seriesCollection)
  nameIn,    \* getSeriesName: seriesIdentifier, hasSingleSeries, spec
  nameOut    \* the name it returns

vars ==
  <<pc, idA, idB, keyA, keyB, extractIn, extractOut, seriesCollection, colorIn,
    seriesColorMap, splitIn, splitDefault, splitVislib, aggIn, specIndex,
    globalDataSeries, mutatedXValueSums, globalXValues, globalSMVValues,
    globalSMHValues, isNumberArray, isOrdinalScale, orderOrdinalBinsBy, aggOut,
    orderIn, orderOut, sortedCollection, nameIn, nameOut>>

\* The element of a one-element set.  Only({F(v) : v \in {e}}) is F(e) with e
\* computed once and named v, as a `const v = e` of the code.
Only(set) == CHOOSE r \in set : TRUE

(***************************************************************************)
(* JavaScript values                                                       *)
(***************************************************************************)
Undef == [t |-> "undefined", n |-> 0, s |-> <<>>]
Null == [t |-> "null", n |-> 0, s |-> <<>>]
NaN == [t |-> "nan", n |-> 0, s |-> <<>>]
Obj == [t |-> "object", n |-> 0, s |-> <<>>]
B(k) == [t |-> "boolean", n |-> k, s |-> <<>>]
N(k) == [t |-> "number", n |-> k, s |-> <<>>]
S(cs) == [t |-> "string", n |-> 0, s |-> cs]

\* typeof v
TypeOf(v) ==
  CASE v.t = "null" -> "object"
    [] v.t = "nan" -> "number"
    [] OTHER -> v.t

\* isNil(v): v === null || v === undefined
isNil(v) == v.t \in {"null", "undefined"}

\* ToBoolean(v), as used by `v ? a : b`, `if (v)` and `v || w`
Truthy(v) ==
  CASE v.t \in {"undefined", "null", "nan"} -> FALSE
    [] v.t = "number" -> v.n # 0
    [] v.t = "string" -> v.s # <<>>
    [] v.t = "boolean" -> v.n # 0
    [] OTHER -> TRUE

(***************************************************************************)
(* Strings                                                                 *)
(***************************************************************************)
Digits == <<"0", "1", "2", "3", "4", "5", "6", "7", "8", "9">>

DigitChars == {Digits[i] : i \in 1..10}

DigitValue(c) == (CHOOSE i \in 1..10 : Digits[i] = c) - 1

\* UTF-16 code unit of the characters the model uses
Code(c) ==
  CASE c = "-" -> 45
    [] c \in DigitChars -> 48 + DigitValue(c)
    [] c = "N" -> 78
    [] c = "a" -> 97
    [] c = "b" -> 98
    [] c = "g" -> 103
    [] c = "h" -> 104
    [] c = "p" -> 112
    [] c = "q" -> 113
    [] c = "r" -> 114
    [] c = "s" -> 115
    [] c = "t" -> 116
    [] c = "v" -> 118
    [] c = "x" -> 120
    [] c = "y" -> 121
    [] c = "z" -> 122
    [] c = "{" -> 123
    [] c = "|" -> 124
    [] c = "}" -> 125
    [] c = "_" -> 95

RECURSIVE NumToStr(_)
\* String(n) for an integer n
NumToStr(k) ==
  IF k < 0 THEN <<"-">> \o NumToStr(-k)
  ELSE IF k < 10 THEN <<Digits[k + 1]>>
  ELSE NumToStr(k \div 10) \o <<Digits[(k % 10) + 1]>>

\* `${v}` for the values that reach a template
ToStr(v) ==
  CASE v.t = "string" -> v.s
    [] v.t = "number" -> NumToStr(v.n)
    [] v.t = "nan" -> <<"N", "a", "N">>
    [] v.t = "null" -> <<"n", "u", "l", "l">>
    [] v.t = "undefined" -> <<"u", "n", "d", "e", "f", "i", "n", "e", "d">>
    [] OTHER -> <<"[", "o", "b", "j", "e", "c", "t", "]">>

RECURSIVE DigitsToNum(_)
DigitsToNum(cs) ==
  IF cs = <<>> THEN 0
  ELSE 10 * DigitsToNum(SubSeq(cs, 1, Len(cs) - 1)) + DigitValue(cs[Len(cs)])

AllDigits(cs) == cs # <<>> /\ \A i \in 1..Len(cs) : cs[i] \in DigitChars

\* Number(v): [nan, n]; strings are over the model's alphabet (no blanks,
\* no '.', 'e', 'x', '+'), where only "", digits and '-'digits are numeric
ToNumber(v) ==
  CASE v.t = "number" -> [nan |-> FALSE, n |-> v.n]
    [] v.t = "null" -> [nan |-> FALSE, n |-> 0]
    [] v.t = "boolean" -> [nan |-> FALSE, n |-> v.n]
    [] v.t = "string" ->
         IF v.s = <<>> THEN [nan |-> FALSE, n |-> 0]
         ELSE IF AllDigits(v.s) THEN [nan |-> FALSE, n |-> DigitsToNum(v.s)]
         ELSE IF v.s[1] = "-" /\ AllDigits(Tail(v.s))
           THEN [nan |-> FALSE, n |-> 0 - DigitsToNum(Tail(v.s))]
         ELSE [nan |-> TRUE, n |-> 0]
    [] OTHER -> [nan |-> TRUE, n |-> 0]

RECURSIVE StrGt(_, _)
\* a > b for two strings: code-unit lexicographic order
StrGt(a, b) ==
  IF a = <<>> THEN FALSE
  ELSE IF b = <<>> THEN TRUE
  ELSE IF Code(a[1]) # Code(b[1]) THEN Code(a[1]) > Code(b[1])
  ELSE StrGt(Tail(a), Tail(b))

\* a > b (abstract relational comparison)
JSGt(a, b) ==
  IF a.t = "string" /\ b.t = "string" THEN StrGt(a.s, b.s)
  ELSE LET na == ToNumber(a)
           nb == ToNumber(b)
       IN ~na.nan /\ ~nb.nan /\ na.n > nb.n

RECURSIVE Join(_, _)
\* parts.join(sep) for a sequence of strings
Join(parts, sep) ==
  IF parts = <<>> THEN <<>>
  ELSE IF Len(parts) = 1 THEN parts[1]
  ELSE parts[1] \o sep \o Join(Tail(parts), sep)

\* The elements of a sequence
Range(s) == {s[i] : i \in 1..Len(s)}

(***************************************************************************)
(* Array.prototype.sort as the engine runs it on a short array (one run):  *)
(* the leading run is counted, reversed when strictly descending, and the  *)
(* remaining elements are placed by binary insertion.  cmp[<<a, b>>] is    *)
(* the comparator's number for (a, b).                                     *)
(***************************************************************************)
JSSort(s, cmp) ==
  LET n == Len(s)
      desc == cmp[<<s[2], s[1]>>] < 0
      ext[k \in 2..n] ==
        IF k = n THEN k
        ELSE LET o == cmp[<<s[k + 1], s[k]>>]
             IN IF (desc /\ o >= 0) \/ (~desc /\ o < 0) THEN k ELSE ext[k + 1]
      runLength == ext[2]
      Rev(w) == [i \in 1..Len(w) |-> w[Len(w) + 1 - i]]
      s1 == IF desc THEN Rev(SubSeq(s, 1, runLength)) \o SubSeq(s, runLength + 1, n)
            ELSE s
      Insert(w, start) ==
        LET pivot == w[start + 1]
            find[lr \in (0..n) \X (0..n)] ==
              IF lr[1] >= lr[2] THEN lr[1]
              ELSE LET mid == lr[1] + ((lr[2] - lr[1]) \div 2)
                   IN IF cmp[<<pivot, w[mid + 1]>>] < 0 THEN find[<<lr[1], mid>>]
                      ELSE find[<<mid + 1, lr[2]>>]
            left == find[<<0, start>>]
        IN Only({SubSeq(w, 1, at) \o <<pivot>> \o SubSeq(w, at + 1, start)
                   \o SubSeq(w, start + 2, n) : at \in {left}})
      st[k \in 2..n] ==
        IF k = runLength THEN s1 ELSE Only({Insert(w, k - 1) : w \in {st[k - 1]}})
  IN IF n < 2 THEN s ELSE st[n]

(***************************************************************************)
(* Ordered maps and sets (Map, Set): sequences in insertion order          *)
(***************************************************************************)
MapHas(m, k) == \E i \in 1..Len(m) : m[i].k = k

MapGet(m, k) == m[CHOOSE i \in 1..Len(m) : m[i].k = k].v

\* map.set(k, v): a present key keeps its place
MapSet(m, k, v) ==
  IF MapHas(m, k)
  THEN [i \in 1..Len(m) |-> IF m[i].k = k THEN [k |-> k, v |-> v] ELSE m[i]]
  ELSE Append(m, [k |-> k, v |-> v])

\* record[key] and map.get(key): undefined when the key is absent
Lookup(m, key) == IF MapHas(m, key) THEN MapGet(m, key) ELSE Undef

MapKeys(m) == {m[i].k : i \in 1..Len(m)}

MapEntries(m) == {m[i] : i \in 1..Len(m)}

SetAdd(s, e) == IF \E i \in 1..Len(s) : s[i] = e THEN s ELSE Append(s, e)

RECURSIVE SetAddAll(_, _)
SetAddAll(s, es) ==
  IF es = <<>> THEN s ELSE Only({SetAddAll(t, Tail(es)) : t \in {SetAdd(s, Head(es))}})


(***************************************************************************)
(* getSeriesKey                                                            *)
(***************************************************************************)
L_groupId == <<"g", "r", "o", "u", "p", "I", "d", "{">>
L_spec == <<"}", "s", "p", "e", "c", "{">>
L_yAccessor == <<"}", "y", "A", "c", "c", "e", "s", "s", "o", "r", "{">>
L_splitAccessors ==
  <<"}", "s", "p", "l", "i", "t", "A", "c", "c", "e", "s", "s", "o", "r", "s", "{">>
L_smV == <<"s", "m", "V", "{">>
L_smH == <<"s", "m", "H", "{">>

\* ([a], [b]) => (a > b ? 1 : -1)
SplitEntryCmp(a, b) == IF JSGt(a.k, b.k) THEN 1 ELSE -1

\* [...splitAccessors.entries()].sort(([a], [b]) => (a > b ? 1 : -1))
SortedSplitEntries(splitAccessors) ==
  JSSort(splitAccessors,
         [p \in Range(splitAccessors) \X Range(splitAccessors) |->
            SplitEntryCmp(p[1], p[2])])

\* .map(([key, value]) => `${key}-${value}`).join('|')
JoinedAccessors(splitAccessors) ==
  Only({Join([i \in 1..Len(sorted) |->
                ToStr(sorted[i].k) \o <<"-">> \o ToStr(sorted[i].v)], <<"|">>) :
          sorted \in {SortedSplitEntries(splitAccessors)}})

getSeriesKey(id, groupId) ==
  LET smV == IF Truthy(id.smVerticalAccessorValue)
             THEN L_smV \o ToStr(id.smVerticalAccessorValue) \o <<"}">>
             ELSE <<>>
      smH == IF Truthy(id.smHorizontalAccessorValue)
             THEN L_smH \o ToStr(id.smHorizontalAccessorValue) \o <<"}">>
             ELSE <<>>
  IN L_groupId \o ToStr(groupId) \o L_spec \o ToStr(id.specId) \o L_yAccessor
       \o ToStr(id.yAccessor) \o L_splitAccessors \o JoinedAccessors(id.splitAccessors)
       \o <<"}">> \o smV \o smH

(***************************************************************************)
(* Raw records and the value extractor                                     *)
(***************************************************************************)
\* A raw record: an object with its properties, or a non-object
Record(fs) == [t |-> "object", fields |-> fs]

NullDatum == [t |-> "null", fields |-> <<>>]

NumberDatum == [t |-> "number", fields |-> <<>>]

\* datum[accessor]: a missing property reads undefined
GetField(datum, accessor) ==
  IF ToStr(accessor) \in DOMAIN datum.fields THEN datum.fields[ToStr(accessor)] ELSE Undef

\* getAccessorValue(datum, accessor) for a property accessor
getAccessorValue(datum, accessor) == GetField(datum, accessor)

\* castToNumber with the null/undefined test left out: Number(null) is 0
CastNoNilCheck(value, nonNumericValues) ==
  LET num == ToNumber(value)
  IN IF num.nan THEN [r |-> Null, nn |-> Append(nonNumericValues, value)]
     ELSE [r |-> N(num.n), nn |-> nonNumericValues]

\* castToNumber: [r: the number or null, nn: the offenders list after]
castToNumber(value, nonNumericValues) ==
  IF value = Null \/ value = Undef THEN [r |-> Null, nn |-> nonNumericValues]
  ELSE LET num == ToNumber(value)
       IN IF num.nan THEN [r |-> Null, nn |-> Append(nonNumericValues, value)]
          ELSE [r |-> N(num.n), nn |-> nonNumericValues]

\* extractYAndMarkFromDatum: [d: the cleaned datum, nn: the offenders list after]
extractYAndMarkFromDatum(datum, yAccessor, nonNumericValues, y0Accessor, markSizeAccessor) ==
  LET mark == IF markSizeAccessor = Undef THEN [r |-> Null, nn |-> nonNumericValues]
              ELSE castToNumber(getAccessorValue(datum, markSizeAccessor), nonNumericValues)
      y1 == castToNumber(GetField(datum, yAccessor), mark.nn)
      y0 == IF Truthy(y0Accessor) THEN castToNumber(GetField(datum, y0Accessor), y1.nn)
            ELSE [r |-> Null, nn |-> y1.nn]
  IN [d |-> [y1 |-> y1.r, datum |-> datum, y0 |-> y0.r, mark |-> mark.r,
             initialY0 |-> y0.r, initialY1 |-> y1.r],
      nn |-> y0.nn]

(***************************************************************************)
(* Colour resolution                                                       *)
(***************************************************************************)
\* getHighestOverride with the persisted override consulted before the custom colour
HighestOverridePersistedFirst(key, customColors, overrides) ==
  LET temporary == Lookup(overrides.temporary, key)
      persisted == Lookup(overrides.persisted, key)
  IN IF Truthy(temporary) THEN temporary
     ELSE IF Truthy(persisted) THEN persisted
     ELSE Lookup(customColors, key)

getHighestOverride(key, customColors, overrides) ==
  LET temporary == Lookup(overrides.temporary, key)
      custom == Lookup(customColors, key)
  IN IF Truthy(temporary) THEN temporary
     ELSE IF Truthy(custom) THEN custom
     ELSE Lookup(overrides.persisted, key)

\* chartColors.vizColors[counter % chartColors.vizColors.length]
PaletteColor(vizColors, counter) == vizColors[(counter % Len(vizColors)) + 1]

RECURSIVE SeriesColorsFrom(_, _, _, _, _, _)
\* The forEach of getSeriesColors from entry `counter` on
SeriesColorsFrom(collection, vizColors, customColors, overrides, counter, colorMap) ==
  IF counter >= Len(collection) THEN colorMap
  ELSE LET seriesKey == collection[counter + 1].k
           colorOverride == getHighestOverride(seriesKey, customColors, overrides)
           color == IF Truthy(colorOverride) THEN colorOverride
                    ELSE PaletteColor(vizColors, counter)
       IN Only({SeriesColorsFrom(collection, vizColors, customColors, overrides,
                                 counter + 1, next) :
                  next \in {MapSet(colorMap, seriesKey, color)}})

getSeriesColors(collection, chartColors, customColors, overrides) ==
  SeriesColorsFrom(collection, chartColors.vizColors, customColors, overrides, 0, <<>>)

(***************************************************************************)
(* splitSeriesDataByAccessors                                              *)
(***************************************************************************)
\* The single-panel sentinel (a non-empty string constant of the specs module)
DEFAULT_SINGLE_PANEL_SM_VALUE == S(<<"_", "_", "s", "m", "_", "_">>)

\* The test with numbers refused
StringKeyOnly(v) == TypeOf(v) = "string"

\* typeof v === 'string' || typeof v === 'number'
PrimitiveKey(v) == TypeOf(v) = "string" \/ TypeOf(v) = "number"

RECURSIVE SplitAccessorsFrom(_, _, _)
SplitAccessorsFrom(datum, accessors, splitAccessors) ==
  IF accessors = <<>> THEN splitAccessors
  ELSE LET value == GetField(datum, Head(accessors))
       IN Only({SplitAccessorsFrom(datum, Tail(accessors), next) :
                  next \in {IF PrimitiveKey(value)
                            THEN MapSet(splitAccessors, Head(accessors), value)
                            ELSE splitAccessors}})

\* getSplitAccessors: the Map accessor -> value of the accessors that resolve
getSplitAccessors(datum, accessors) ==
  IF datum.t = "object" THEN SplitAccessorsFrom(datum, accessors, <<>>) ELSE <<>>

\* The panel value with a nil result replaced by the sentinel
PanelValueNilAsSentinel(by, datum) ==
  IF by = Undef THEN DEFAULT_SINGLE_PANEL_SM_VALUE
  ELSE IF isNil(GetField(datum, by)) THEN DEFAULT_SINGLE_PANEL_SM_VALUE
  ELSE GetField(datum, by)

\* smallMultiples?.<axis>?.by ? by(spec, datum) : DEFAULT_SINGLE_PANEL_SM_VALUE;
\* a configured `by` reads one property of the record
PanelValue(by, datum) ==
  IF by = Undef THEN DEFAULT_SINGLE_PANEL_SM_VALUE ELSE GetField(datum, by)

\* y0Accessors && y0Accessors[index]
Y0AccessorAt(y0Accessors, index) ==
  IF y0Accessors = Undef THEN Undef
  ELSE IF index + 1 <= Len(y0Accessors) THEN y0Accessors[index + 1]
  ELSE Undef

\* [...splitAccessors.values(), accessor]
SeriesKeysOf(splitAccessors, accessor) ==
  [i \in 1..Len(splitAccessors) |-> splitAccessors[i].v] \o <<accessor>>

\* a ?? b
Coalesce(a, b) == IF isNil(a) THEN b ELSE a

\* xValueSums.get(x) ?? 0 (the sums are held as plain integers)
SumOf(xValueSums, x) == IF MapHas(xValueSums, x) THEN MapGet(xValueSums, x) ELSE 0

\* The rest of the body run for one record and one y-accessor, once the datum
\* is cleaned and the series key built: the series is found or created and the
\* running sum stored.  st = [dataSeries, nonNumericValues, xValueSums, sum]
StoreDatum(spec, datum, x, splitAccessors, smH, smV, st, accessor, cleaned, seriesKey) ==
  LET sum == st.sum + Coalesce(cleaned.d.y1, N(0)).n
      newDatum == [x |-> x, y1 |-> cleaned.d.y1, y0 |-> cleaned.d.y0,
                   mark |-> cleaned.d.mark, initialY0 |-> cleaned.d.initialY0,
                   initialY1 |-> cleaned.d.initialY1, datum |-> datum,
                   smH |-> smH, smV |-> smV]
      series ==
        IF MapHas(st.dataSeries, seriesKey)
        THEN [MapGet(st.dataSeries, seriesKey) EXCEPT !.data = Append(@, newDatum)]
        ELSE [specId |-> spec.id, groupId |-> spec.groupId, yAccessor |-> accessor,
              splitAccessors |-> splitAccessors, smVerticalAccessorValue |-> smV,
              smHorizontalAccessorValue |-> smH,
              seriesKeys |-> SeriesKeysOf(splitAccessors, accessor),
              key |-> seriesKey, data |-> <<newDatum>>]
  IN [dataSeries |-> MapSet(st.dataSeries, seriesKey, series),
      nonNumericValues |-> cleaned.nn,
      xValueSums |-> MapSet(st.xValueSums, x, sum),
      sum |-> sum]

\* The body run for one record and one y-accessor
AccessorStep(spec, datum, x, splitAccessors, smH, smV, st, accessor, index) ==
  Only({StoreDatum(spec, datum, x, splitAccessors, smH, smV, st, accessor, cleaned,
                   seriesKey) :
          cleaned \in {extractYAndMarkFromDatum(datum, accessor, st.nonNumericValues,
                                                Y0AccessorAt(spec.y0Accessors, index),
                                                spec.markSizeAccessor)},
          seriesKey \in {getSeriesKey([specId |-> spec.id, groupId |-> spec.groupId,
                                       yAccessor |-> accessor,
                                       splitAccessors |-> splitAccessors,
                                       smVerticalAccessorValue |-> smV,
                                       smHorizontalAccessorValue |-> smH],
                                      spec.groupId)}})

RECURSIVE AccessorSteps(_, _, _, _, _, _, _, _)
\* AccessorStep for the y-accessors at `indexes`, in order
AccessorSteps(spec, datum, x, splitAccessors, smH, smV, st, indexes) ==
  IF indexes = <<>> THEN st
  ELSE Only({AccessorSteps(spec, datum, x, splitAccessors, smH, smV, next, Tail(indexes)) :
               next \in {AccessorStep(spec, datum, x, splitAccessors, smH, smV, st,
                                      spec.yAccessors[Head(indexes) + 1], Head(indexes))}})

\* What a record that is not skipped leaves behind, once its split values, x
\* and panel values are read
RecordKept(spec, acc, datum, indexes, splitAccessors, x, smH, smV) ==
  Only({[dataSeries |-> st.dataSeries,
         xValues |-> Append(acc.xValues, x),
         smVValues |-> IF isNil(smV) THEN acc.smVValues ELSE SetAdd(acc.smVValues, smV),
         smHValues |-> IF isNil(smH) THEN acc.smHValues ELSE SetAdd(acc.smHValues, smH),
         nonNumericValues |-> st.nonNumericValues,
         xValueSums |-> st.xValueSums] :
          st \in {AccessorSteps(spec, datum, x, splitAccessors, smH, smV,
                                [dataSeries |-> acc.dataSeries,
                                 nonNumericValues |-> acc.nonNumericValues,
                                 xValueSums |-> acc.xValueSums,
                                 sum |-> SumOf(acc.xValueSums, x)],
                                indexes)}})

\* The rest of a loop body after the skip tests: the split values, x and panel
\* values are read and the record's data stored
RecordRead(spec, smallMultiples, acc, datum, indexes) ==
  Only({RecordKept(spec, acc, datum, indexes, splitAccessors, x, smH, smV) :
          splitAccessors \in {getSplitAccessors(datum, spec.splitSeriesAccessors)},
          x \in {getAccessorValue(datum, spec.xAccessor)},
          smH \in {PanelValue(smallMultiples.horizontal, datum)},
          smV \in {PanelValue(smallMultiples.vertical, datum)}})

\* The loop body with the three skip tests left out
RecordStepNoSkip(spec, smallMultiples, acc, datum, indexes) ==
  RecordRead(spec, smallMultiples, acc, datum, indexes)

\* One pass of a loop body over one record, for the y-accessors at `indexes`:
\* the record is skipped, or its x, panel values and data are recorded.
\* acc = [dataSeries, xValues, smVValues, smHValues, nonNumericValues, xValueSums]
RecordStep(spec, smallMultiples, acc, datum, indexes) ==
  IF Len(spec.splitSeriesAccessors) > 0
       /\ Len(getSplitAccessors(datum, spec.splitSeriesAccessors)) < 1
    THEN acc
  ELSE IF datum.t # "object" THEN acc
  ELSE IF ~PrimitiveKey(getAccessorValue(datum, spec.xAccessor)) THEN acc
  ELSE RecordRead(spec, smallMultiples, acc, datum, indexes)

\* The state of the function before its loops
SplitStart(xValueSums) ==
  [dataSeries |-> <<>>, xValues |-> <<>>, smVValues |-> <<>>, smHValues |-> <<>>,
   nonNumericValues |-> <<>>, xValueSums |-> xValueSums]

AllIndexes(spec) == [i \in 1..Len(spec.yAccessors) |-> i - 1]

RECURSIVE DefaultLoop(_, _, _, _)
\* The default branch after the first `count` records: every y-accessor per record
DefaultLoop(spec, xValueSums, smallMultiples, count) ==
  IF count = 0 THEN SplitStart(xValueSums)
  ELSE Only({RecordStep(spec, smallMultiples, acc, spec.data[count], AllIndexes(spec)) :
               acc \in {DefaultLoop(spec, xValueSums, smallMultiples, count - 1)}})

\* The legacy branch going through the first y-accessor only
VislibFirstAccessorOnly(spec, xValueSums, smallMultiples, done, count) ==
  DefaultLoop([spec EXCEPT !.yAccessors = <<spec.yAccessors[1]>>], xValueSums,
              smallMultiples, Len(spec.data))

RECURSIVE VislibLoop(_, _, _, _, _)
\* The enableVislibSeriesSort branch after `done` whole y-accessors and the
\* first `count` records of the next: every record per y-accessor
VislibLoop(spec, xValueSums, smallMultiples, done, count) ==
  IF count = 0
  THEN IF done = 0 THEN SplitStart(xValueSums)
       ELSE VislibLoop(spec, xValueSums, smallMultiples, done - 1, Len(spec.data))
  ELSE Only({RecordStep(spec, smallMultiples, acc, spec.data[count], <<done>>) :
               acc \in {VislibLoop(spec, xValueSums, smallMultiples, done, count - 1)}})

splitSeriesDataByAccessors(spec, xValueSums, enableVislibSeriesSort, smallMultiples) ==
  IF enableVislibSeriesSort
  THEN VislibLoop(spec, xValueSums, smallMultiples, Len(spec.yAccessors), 0)
  ELSE DefaultLoop(spec, xValueSums, smallMultiples, Len(spec.data))

(***************************************************************************)
(* getDataSeriesFromSpecs                                                  *)
(***************************************************************************)
\* [...dataSeries.values()]
MapValues(m) == [i \in 1..Len(m) |-> m[i].v]

\* The filter with the deselected series let through
FilterKeepsAll(series, deselectedDataSeries) == series

\* filteredDataSeries: the series whose key is the key of no deselected identifier
FilterDeselected(series, deselectedDataSeries) ==
  IF Len(deselectedDataSeries) > 0
  THEN SelectSeq(series,
                 LAMBDA s : ~\E i \in 1..Len(deselectedDataSeries) :
                              s.key = deselectedDataSeries[i].key)
  ELSE series

\* spec.y0Accessors && spec.y0Accessors.length > 0
Banded(spec) ==
  IF spec.y0Accessors = Undef THEN Undef
  ELSE IF Len(spec.y0Accessors) > 0 THEN B(1) ELSE B(0)

\* const { data, ...seriesIdentifier } = series
WithoutData(series) ==
  [specId |-> series.specId, groupId |-> series.groupId, yAccessor |-> series.yAccessor,
   splitAccessors |-> series.splitAccessors,
   smVerticalAccessorValue |-> series.smVerticalAccessorValue,
   smHorizontalAccessorValue |-> series.smHorizontalAccessorValue,
   seriesKeys |-> series.seriesKeys, key |-> series.key]

\* The collecting loop stopping after the first series of the spec
CollectFirstOnly(collection, dataSeries, spec) ==
  IF dataSeries = <<>> THEN collection
  ELSE MapSet(collection, dataSeries[1].k,
              [banded |-> Banded(spec), specSortIndex |-> spec.sortIndex,
               seriesIdentifier |-> WithoutData(dataSeries[1].v)])

RECURSIVE CollectSeries(_, _, _)
\* dataSeries.forEach((series, key) => seriesCollection.set(key, {...}))
CollectSeries(collection, dataSeries, spec) ==
  IF dataSeries = <<>> THEN collection
  ELSE Only({CollectSeries(next, Tail(dataSeries), spec) :
               next \in {MapSet(collection, Head(dataSeries).k,
                                [banded |-> Banded(spec), specSortIndex |-> spec.sortIndex,
                                 seriesIdentifier |-> WithoutData(Head(dataSeries).v)])}})

\* isNumberArray after the x values of one spec
NumbersOnly(numbersSoFar, xValues) ==
  numbersSoFar /\ \A i \in 1..Len(xValues) : TypeOf(xValues[i]) = "number"

\* (a, b) => typeof a === 'string' || typeof b === 'string' ? 0 : a - b
\* (a - b is NaN when a or b is NaN, and the sort reads a NaN result as +0)
NumericCmp(a, b) ==
  IF TypeOf(a) = "string" \/ TypeOf(b) = "string" THEN 0
  ELSE IF a = NaN \/ b = NaN THEN 0
  ELSE a.n - b.n

\* new Set([...globalXValues].sort(...)) of the numeric domain
SortedNumericXValues(xValues) ==
  JSSort(xValues, [p \in Range(xValues) \X Range(xValues) |-> NumericCmp(p[1], p[2])])

\* The domain returned as it came
OrdinalXValuesAsGiven(xValues, xValueSums, orderBy) == xValues

\* getSortedOrdinalXValues; orderBy is undefined or [binAgg, direction]
getSortedOrdinalXValues(xValues, xValueSums, orderBy) ==
  IF orderBy = Undef THEN xValues
  ELSE IF orderBy.binAgg = "none" THEN xValues
  ELSE LET SumCmp(v1, v2) ==
             (IF orderBy.direction = "ascending" THEN 1 ELSE -1)
               * (SumOf(xValueSums, v1) - SumOf(xValueSums, v2))
       IN JSSort(xValues, [p \in Range(xValues) \X Range(xValues) |-> SumCmp(p[1], p[2])])

\* getSortIndex: specSortIndex != null ? specSortIndex : total
getSortIndex(value, total) ==
  IF isNil(value.specSortIndex) THEN total ELSE value.specSortIndex.n

\* getSortedDataSeriesColorsValuesMap: the entries sorted by getSortIndex, the
\* collection's size standing for a missing index
getSortedDataSeriesColorsValuesMap(collection) ==
  JSSort(collection,
         [p \in Range(collection) \X Range(collection) |->
            getSortIndex(p[1].v, Len(collection)) - getSortIndex(p[2].v, Len(collection))])

\* export const SERIES_DELIMITER = ' - '
SERIES_DELIMITER == S(<<" ", "-", " ">>)

\* An element as Array.prototype.join renders it: null and undefined as ''
JoinElement(v) == IF isNil(v) THEN <<>> ELSE ToStr(v)

\* array.join(delimiter) of an array of values
JoinValues(array, delimiter) ==
  Join([i \in 1..Len(array) |-> JoinElement(array[i])], delimiter.s)

\* ({ sortIndex: a = Infinity }, { sortIndex: b = Infinity }) => a - b, a NaN
\* result (Infinity - Infinity) read by the sort as +0
RuleCmp(ruleA, ruleB) ==
  IF ruleA.sortIndex = Undef /\ ruleB.sortIndex = Undef THEN 0
  ELSE IF ruleA.sortIndex = Undef THEN 1
  ELSE IF ruleB.sortIndex = Undef THEN -1
  ELSE ruleA.sortIndex.n - ruleB.sortIndex.n

\* The rules left in the order they were written
NamesAsWritten(names) == names

\* options.names.slice().sort(...)
SortedNames(names) ==
  JSSort(names, [p \in Range(names) \X Range(names) |-> RuleCmp(p[1], p[2])])

\* The callback of .map in getSeriesNameFromOptions: what one rule gives
RuleLabel(rule, id) ==
  IF Coalesce(Lookup(id.splitAccessors, rule.accessor), Null) = rule.value
    THEN Coalesce(rule.name, rule.value)
  ELSE IF id.yAccessor = rule.accessor THEN Coalesce(rule.name, rule.accessor)
  ELSE Null

\* getSeriesNameFromOptions: null, or the labels of the rules joined;
\* options.names is undefined or an array [items]
getSeriesNameFromOptions(options, id, delimiter) ==
  IF options.names = Undef THEN Null
  ELSE Only({IF joined = <<>> THEN Null ELSE S(joined) :
               joined \in {JoinValues(SelectSeq([i \in 1..Len(sorted) |->
                                                  RuleLabel(sorted[i], id)],
                                               LAMBDA d : Truthy(d) \/ d = N(0)),
                                     delimiter) :
                             sorted \in {SortedNames(options.names.items)}}})

\* nameKeys with the y-accessor always kept
NameKeysWhole(seriesIdentifier, spec) == seriesIdentifier.seriesKeys

\* nameKeys: the series keys, without the last one unless the spec has more
\* than one y-accessor
NameKeys(seriesIdentifier, spec) ==
  IF spec # Undef /\ Len(spec.yAccessors) > 1 THEN seriesIdentifier.seriesKeys
  ELSE SubSeq(seriesIdentifier.seriesKeys, 1, Len(seriesIdentifier.seriesKeys) - 1)

\* getSeriesName from `let name = ''` on; spec.splitSeriesAccessors is
\* undefined or an array [items]
DefaultName(seriesIdentifier, hasSingleSeries, spec, delimiter) ==
  LET nameKeys == NameKeys(seriesIdentifier, spec)
  IN IF hasSingleSeries \/ Len(nameKeys) = 0 \/ isNil(nameKeys[1])
     THEN IF spec = Undef THEN S(<<>>)
          ELSE IF spec.splitSeriesAccessors # Undef /\ Len(nameKeys) > 0
                    /\ ~isNil(nameKeys[1])
            THEN S(JoinValues(nameKeys, delimiter))
          ELSE IF TypeOf(spec.name) = "string" THEN spec.name
          ELSE S(ToStr(spec.id))
     ELSE S(JoinValues(nameKeys, delimiter))

\* getSeriesName; spec.name is undefined, a string, a function (held as the
\* label it returns) or naming options [names, delimiter]
getSeriesName(seriesIdentifier, hasSingleSeries, isTooltip, spec) ==
  IF spec = Undef
    THEN DefaultName(seriesIdentifier, hasSingleSeries, spec, SERIES_DELIMITER)
  ELSE IF ~Truthy(spec.name) \/ TypeOf(spec.name) = "string"
    THEN DefaultName(seriesIdentifier, hasSingleSeries, spec, SERIES_DELIMITER)
  ELSE IF TypeOf(spec.name) = "function"
    THEN IF spec.name.result # Null THEN S(ToStr(spec.name.result))
         ELSE DefaultName(seriesIdentifier, hasSingleSeries, spec, SERIES_DELIMITER)
  ELSE Only({IF customLabel # Null THEN S(ToStr(customLabel))
             ELSE DefaultName(seriesIdentifier, hasSingleSeries, spec, delimiter) :
               delimiter \in {Coalesce(spec.name.delimiter, SERIES_DELIMITER)},
               customLabel \in {getSeriesNameFromOptions(
                                   spec.name, seriesIdentifier,
                                   Coalesce(spec.name.delimiter, SERIES_DELIMITER))}})

(***************************************************************************)
(* Input universes                                                         *)
(***************************************************************************)
MaxSplit == 2

KeyGroupIds == {S(<<"g">>), S(<<"h">>)}

KeySpecIds == {S(<<"s">>), S(<<"t">>)}

KeyYAccessors == {S(<<"y">>), N(1)}

SplitKeyDomain == {S(<<"a">>), S(<<"a", "-">>), N(1)}

SplitValDomain == {S(<<"b">>), S(<<"-", "b">>)}

PanelValuesV == {Undef, N(0), S(<<>>), S(<<"p">>)}

PanelValuesH == {Undef, S(<<"p">>)}

\* Maps of at most MaxSplit entries, in every insertion order, keys unique
SplitMaps ==
  UNION {{m \in [1..len -> [k : SplitKeyDomain, v : SplitValDomain]] :
            \A i, j \in 1..len : i # j => m[i].k # m[j].k} : len \in 0..MaxSplit}

Identifiers ==
  [groupId : KeyGroupIds, specId : KeySpecIds, yAccessor : KeyYAccessors,
   splitAccessors : SplitMaps, smVerticalAccessorValue : PanelValuesV,
   smHorizontalAccessorValue : PanelValuesH]

\* The identifiers that differ from id in at most one field
Variants(id) ==
  {[id EXCEPT !.groupId = g] : g \in KeyGroupIds}
    \cup {[id EXCEPT !.specId = g] : g \in KeySpecIds}
    \cup {[id EXCEPT !.yAccessor = g] : g \in KeyYAccessors}
    \cup {[id EXCEPT !.splitAccessors = g] : g \in SplitMaps}
    \cup {[id EXCEPT !.smVerticalAccessorValue = g] : g \in PanelValuesV}
    \cup {[id EXCEPT !.smHorizontalAccessorValue = g] : g \in PanelValuesH}

RawValues ==
  {Undef, Null, N(0), N(3), NaN, S(<<>>), S(<<"1", "2">>), S(<<"-", "1">>),
   S(<<"b", "a", "d">>), S(<<"1", "a">>), Obj, B(1)}

F_x == <<"x">>
F_y == <<"y">>
F_z == <<"z">>
F_b == <<"b">>
F_m == <<"m">>
F_g == <<"g">>
F_v == <<"v">>

ExtractDatums ==
  {Record((F_y :> y) @@ (F_b :> b) @@ (F_m :> m)) :
     y \in RawValues, b \in RawValues, m \in {Undef, N(3), S(<<"b", "a", "d">>)}}

ExtractArgs ==
  [datum : ExtractDatums, yAccessor : {S(F_y)}, y0Accessor : {Undef, S(F_b)},
   markSizeAccessor : {Undef, S(F_m)},
   nonNumericValues : {<<>>, <<S(<<"q">>)>>}]

\* ---- colour inputs
MaxSeries == 2

ColorKeys == {<<"k", "1">>, <<"k", "2">>, <<"k", "3">>}

TemporaryColor == S(<<"t">>)
CustomColor == S(<<"c">>)
PersistedColor == S(<<"s">>)

Palettes == {<<S(<<"p">>)>>, <<S(<<"p">>), S(<<"q">>)>>}

RECURSIVE SeqOfSet(_)
\* The elements of a set in some fixed order
SeqOfSet(set) ==
  IF set = {} THEN <<>>
  ELSE LET e == CHOOSE e \in set : TRUE IN <<e>> \o SeqOfSet(set \ {e})

\* A map giving `color` to each key of `keys`
ColorMapOf(keys, color) ==
  LET ks == SeqOfSet(keys) IN [i \in 1..Len(ks) |-> [k |-> ks[i], v |-> color]]

\* Sequences of distinct elements of `set`, at most `maxLen` long
DistinctSeqs(set, maxLen) ==
  UNION {{q \in [1..len -> set] : \A i, j \in 1..len : i # j => q[i] # q[j]} :
           len \in 0..maxLen}

CollectionValue == [banded |-> Undef, specSortIndex |-> Undef]

ColorCollections ==
  {[i \in 1..Len(q) |-> [k |-> q[i], v |-> CollectionValue]] :
     q \in DistinctSeqs(ColorKeys, MaxSeries)}

ColorInputs ==
  {[chartColors |-> [vizColors |-> pal],
    customColors |-> ColorMapOf(c, CustomColor),
    overrides |-> [temporary |-> ColorMapOf(tm, TemporaryColor),
                   persisted |-> ColorMapOf(ps, PersistedColor)]] :
     pal \in Palettes, c \in SUBSET ColorKeys, tm \in SUBSET ColorKeys,
     ps \in SUBSET ColorKeys}

\* ---- splitter inputs
MaxRecords == 2

\* A record with properties x, y, z (a second y), g (a split field), v (a panel field)
Rec(x, y, z, g, v) ==
  Record((F_x :> x) @@ (F_y :> y) @@ (F_z :> z) @@ (F_g :> g) @@ (F_v :> v))

SplitRecords ==
  {Rec(N(1), N(1), N(2), S(<<"r">>), S(<<"p">>)),
   Rec(N(1), N(5), Null, S(<<"r">>), S(<<"p">>)),
   Rec(N(2), S(<<"b", "a", "d">>), N(2), S(<<"q">>), Null),
   Rec(S(<<"a">>), N(1), N(2), Null, S(<<"q">>)),
   Rec(Obj, N(1), N(2), S(<<"r">>), S(<<"p">>)),
   Rec(Undef, N(1), N(2), Obj, S(<<"p">>)),
   NullDatum,
   NumberDatum}

SeqsUpTo(set, maxLen) == UNION {[1..len -> set] : len \in 0..maxLen}

SplitSpecs ==
  [id : {S(<<"s">>)}, groupId : {S(<<"g">>)}, data : SeqsUpTo(SplitRecords, MaxRecords),
   xAccessor : {S(F_x)}, yAccessors : {<<S(F_y)>>, <<S(F_y), S(F_z)>>},
   y0Accessors : {Undef}, markSizeAccessor : {Undef},
   splitSeriesAccessors : {<<>>, <<S(F_g)>>}]

SmallMultiples ==
  {[vertical |-> Undef, horizontal |-> Undef],
   [vertical |-> S(F_v), horizontal |-> Undef],
   [vertical |-> Undef, horizontal |-> S(F_v)]}

StartSums == {<<>>, <<[k |-> N(1), v |-> 10]>>}

SplitInputs == [spec : SplitSpecs, xValueSums : StartSums, smallMultiples : SmallMultiples]

\* ---- aggregator inputs
MaxAggRecords == 2

\* A record with properties x and y (z absent)
AggRec(x, y) == Record((F_x :> x) @@ (F_y :> y))

AggRecords ==
  {AggRec(N(2), N(1)), AggRec(N(1), N(4)), AggRec(NaN, N(1)), AggRec(S(<<"a">>), N(2))}

S1 == S(<<"s", "1">>)
S2 == S(<<"s", "2">>)

\* The specs with id `id`, data among `datasets` and y-accessor lists `yAccessorLists`
AggSpecsOf(id, datasets, yAccessorLists) ==
  [id : {id}, groupId : {S(<<"g">>)}, data : datasets,
   xAccessor : {S(F_x)}, yAccessors : yAccessorLists, y0Accessors : {Undef},
   markSizeAccessor : {Undef}, splitSeriesAccessors : {<<>>},
   xScaleType : {"linear", "ordinal"}, sortIndex : {Undef}]

FirstSpecs ==
  AggSpecsOf(S1, SeqsUpTo(AggRecords, MaxAggRecords), {<<S(F_y)>>, <<S(F_y), S(F_z)>>})

\* The second spec has no record or one
SecondSpecs == AggSpecsOf(S2, {<<>>} \cup {<<r>> : r \in AggRecords}, {<<S(F_y)>>})

\* No spec, one spec, or two specs with different ids
SeriesSpecLists ==
  {<<>>} \cup {<<a>> : a \in FirstSpecs} \cup {<<a, b>> : a \in FirstSpecs, b \in SecondSpecs}

NoPanels == [vertical |-> Undef, horizontal |-> Undef]

\* The series identifier (its key alone is read) of a spec id and y-accessor
IdentifierOf(specId, yAccessor) ==
  [key |-> getSeriesKey([specId |-> specId, yAccessor |-> yAccessor, splitAccessors |-> <<>>,
                         smVerticalAccessorValue |-> DEFAULT_SINGLE_PANEL_SM_VALUE,
                         smHorizontalAccessorValue |-> DEFAULT_SINGLE_PANEL_SM_VALUE],
                        S(<<"g">>))]

DeselectedLists ==
  {<<>>, <<IdentifierOf(S1, S(F_y))>>, <<IdentifierOf(S2, S(F_y)), IdentifierOf(S1, S(F_z))>>}

AggInputs ==
  [seriesSpecs : SeriesSpecLists, deselectedDataSeries : DeselectedLists,
   enableVislibSeriesSort : BOOLEAN, smallMultiples : {NoPanels}]

OrderBys ==
  {Undef,
   [t |-> "object", binAgg |-> "none", direction |-> "ascending"],
   [t |-> "object", binAgg |-> "sum", direction |-> "ascending"],
   [t |-> "object", binAgg |-> "sum", direction |-> "descending"]}

MaxRules == 2

Red == S(<<"r", "e", "d">>)
Line1 == S(<<"l", "i", "n", "e", "1">>)
Line2 == S(<<"l", "i", "n", "e", "2">>)

Array(items) == [t |-> "array", items |-> items]

\* A name-mapping rule of SeriesNameConfigOptions
Rule(accessor, value, name, sortIndex) ==
  [accessor |-> accessor, value |-> value, name |-> name, sortIndex |-> sortIndex]

\* Rules on the split field g, on a y-accessor and on an absent field h, with
\* and without a name and a priority
NameRules ==
  {Rule(S(F_g), Red, S(<<"A">>), Undef),
   Rule(S(F_g), Red, Undef, N(1)),
   Rule(Line1, Undef, S(<<"B">>), N(0)),
   Rule(Line1, Undef, Undef, Undef),
   Rule(Line2, Undef, S(<<"C">>), N(5)),
   Rule(S(F_g), S(<<"b", "l", "u", "e">>), S(<<"D">>), N(0)),
   Rule(S(F_g), Red, S(<<>>), N(0)),
   Rule(S(<<"h">>), Null, S(<<"E">>), Undef),
   Rule(S(F_g), N(0), Undef, N(2))}

NameOptions ==
  [t : {"object"},
   names : {Undef} \cup {Array(q) : q \in SeqsUpTo(NameRules, MaxRules)},
   delimiter : {Undef, S(<<"/">>)}]

\* spec.name: absent, a string, a function returning a label or null, or options
SpecNames ==
  {Undef, S(<<>>), S(<<"n">>)}
    \cup [t : {"function"}, result : {Null, S(<<"f">>), N(3)}]
    \cup NameOptions

NameSpecs ==
  [id : {S(<<"s", "1">>)}, name : SpecNames, yAccessors : {<<Line1>>, <<Line1, Line2>>},
   splitSeriesAccessors : {Undef, Array(<<>>), Array(<<S(F_g)>>)}]

\* The identifiers splitting a spec can give: one of its y-accessors, and a
\* value of g when the spec splits on g
NameIdentifiersOf(spec) ==
  {[yAccessor |-> y, splitAccessors |-> splits,
    seriesKeys |-> [i \in 1..Len(splits) |-> splits[i].v] \o <<y>>] :
     y \in Range(spec.yAccessors),
     splits \in IF spec.splitSeriesAccessors = Array(<<S(F_g)>>)
                THEN {<<[k |-> S(F_g), v |-> Red]>>, <<[k |-> S(F_g), v |-> N(0)]>>}
                ELSE {<<>>}}

\* A spec with one of its identifiers, or no spec with an identifier
NameInputs ==
  UNION {[seriesIdentifier : NameIdentifiersOf(spec), hasSingleSeries : BOOLEAN,
          spec : {spec}] : spec \in NameSpecs}
    \cup [seriesIdentifier : {[yAccessor |-> Line1, splitAccessors |-> <<>>,
                               seriesKeys |-> <<Line1>>],
                              [yAccessor |-> Line1,
                               splitAccessors |-> <<[k |-> S(F_g), v |-> Red]>>,
                               seriesKeys |-> <<Red, Line1>>]},
          hasSingleSeries : BOOLEAN, spec : {Undef}]

MaxSorted == 3

SortKeys == {<<"k", "1">>, <<"k", "2">>, <<"k", "3">>, <<"k", "4">>}

\* No explicit sort index (undefined or null), or one below, at or above the
\* sizes of the collections
SortIndexes == {Undef, Null, N(0), N(1), N(2), N(5)}

\* Collections of distinct keys, each with its specSortIndex
SortCollections ==
  UNION {{[i \in 1..Len(q) |-> [k |-> q[i], v |-> [banded |-> Undef, specSortIndex |-> x[i]]]] :
            x \in [1..Len(q) -> SortIndexes]} :
           q \in DistinctSeqs(SortKeys, MaxSorted)}

MaxDomain == 3

\* x values of an ordinal domain; no sum is ever recorded for the last
OrderKeys == {S(<<"a">>), S(<<"b">>), S(<<"c">>), S(<<"d">>)}

\* The sum recorded for an x value, or no entry
SumChoices == [has : {TRUE}, n : {-1, 1, 5, 10}] \cup [has : {FALSE}, n : {0}]

\* The x-sum map holding the sums chosen for "a", "b" and "c"
SumMapOf(a, b, c) ==
  LET chosen == SelectSeq(<<[k |-> S(<<"a">>), c |-> a], [k |-> S(<<"b">>), c |-> b],
                            [k |-> S(<<"c">>), c |-> c]>>,
                          LAMBDA e : e.c.has)
  IN [i \in 1..Len(chosen) |-> [k |-> chosen[i].k, v |-> chosen[i].c.n]]

SumMaps == {SumMapOf(a, b, c) : a \in SumChoices, b \in SumChoices, c \in SumChoices}

\* No policy, or a policy whose aggregation kind is none, sum or something
\* else, and whose direction is ascending, descending or something else
OrderPolicies ==
  {Undef} \cup [t : {"object"}, binAgg : {"none", "sum", "other"},
                direction : {"ascending", "descending", "other"}]

OrderInputs ==
  [xValues : DistinctSeqs(OrderKeys, MaxDomain), xValueSums : SumMaps,
   orderOrdinalBinsBy : OrderPolicies]

(***************************************************************************)
(* Specifications: one per operation under study.  The variables of the    *)
(* other operations rest at None.                                          *)
(***************************************************************************)
None == <<>>

keyVars == <<idA, idB, keyA, keyB>>

extractVars == <<extractIn, extractOut>>

colorVars == <<colorIn, seriesColorMap>>

splitVars == <<splitIn, splitDefault, splitVislib>>

aggVars ==
  <<aggIn, specIndex, globalDataSeries, mutatedXValueSums, globalXValues,
    globalSMVValues, globalSMHValues, isNumberArray, isOrdinalScale,
    orderOrdinalBinsBy, aggOut>>

orderVars == <<orderIn, orderOut>>

sortVars == <<sortedCollection>>

nameVars == <<nameIn, nameOut>>

\* The variables of the runs on getSortedOrdinalXValues,
\* getSortedDataSeriesColorsValuesMap and getSeriesName
otherVars == <<orderVars, sortVars, nameVars>>

OrderIdle == orderIn = None /\ orderOut = None

SortIdle == sortedCollection = None

NameIdle == nameIn = None /\ nameOut = None

OtherIdle == OrderIdle /\ SortIdle /\ NameIdle

KeyIdle == idA = None /\ idB = None /\ keyA = None /\ keyB = None

ExtractIdle == extractIn = None /\ extractOut = None

ColorIdle == colorIn = None /\ seriesColorMap = None

SplitIdle == splitIn = None /\ splitDefault = None /\ splitVislib = None

AggIdle ==
  /\ aggIn = None
  /\ specIndex = 0
  /\ globalDataSeries = None
  /\ mutatedXValueSums = None
  /\ globalXValues = None
  /\ globalSMVValues = None
  /\ globalSMHValues = None
  /\ isNumberArray = TRUE
  /\ isOrdinalScale = FALSE
  /\ orderOrdinalBinsBy = None
  /\ aggOut = None

\* ---- getSeriesKey on two identifiers
KeyInit ==
  /\ pc = "ids"
  /\ idA \in Identifiers
  /\ idB \in Variants(idA)
  /\ keyA = None
  /\ keyB = None
  /\ seriesCollection = None
  /\ ExtractIdle /\ ColorIdle /\ SplitIdle /\ AggIdle /\ OtherIdle

BuildKeys ==
  /\ pc = "ids"
  /\ keyA' = getSeriesKey(idA, idA.groupId)
  /\ keyB' = getSeriesKey(idB, idB.groupId)
  /\ pc' = "keys"
  /\ UNCHANGED <<idA, idB, seriesCollection, extractVars, colorVars, splitVars, aggVars,
                 otherVars>>

KeyNext == BuildKeys

SpecKey == KeyInit /\ [][KeyNext]_vars

\* ---- extractYAndMarkFromDatum on one record
ExtractInit ==
  /\ pc = "args"
  /\ extractIn \in ExtractArgs
  /\ extractOut = None
  /\ seriesCollection = None
  /\ KeyIdle /\ ColorIdle /\ SplitIdle /\ AggIdle /\ OtherIdle

Extract ==
  /\ pc = "args"
  /\ extractOut' = extractYAndMarkFromDatum(extractIn.datum, extractIn.yAccessor,
                                            extractIn.nonNumericValues,
                                            extractIn.y0Accessor, extractIn.markSizeAccessor)
  /\ pc' = "extracted"
  /\ UNCHANGED <<extractIn, seriesCollection, keyVars, colorVars, splitVars, aggVars,
                 otherVars>>

ExtractNext == Extract

SpecExtract == ExtractInit /\ [][ExtractNext]_vars

\* ---- getSeriesColors on one collection
ColorInit ==
  /\ pc = "collection"
  /\ seriesCollection \in ColorCollections
  /\ colorIn \in ColorInputs
  /\ seriesColorMap = None
  /\ KeyIdle /\ ExtractIdle /\ SplitIdle /\ AggIdle /\ OtherIdle

ResolveColors ==
  /\ pc = "collection"
  /\ seriesColorMap' = getSeriesColors(seriesCollection, colorIn.chartColors,
                                       colorIn.customColors, colorIn.overrides)
  /\ pc' = "colors"
  /\ UNCHANGED <<seriesCollection, colorIn, keyVars, extractVars, splitVars, aggVars,
                 otherVars>>

ColorNext == ResolveColors

SpecColors == ColorInit /\ [][ColorNext]_vars

\* ---- splitSeriesDataByAccessors on one spec, in both modes
SplitInit ==
  /\ pc = "spec"
  /\ splitIn \in SplitInputs
  /\ splitDefault = None
  /\ splitVislib = None
  /\ seriesCollection = None
  /\ KeyIdle /\ ExtractIdle /\ ColorIdle /\ AggIdle /\ OtherIdle

SplitDefault ==
  /\ splitDefault = None
  /\ splitDefault' = splitSeriesDataByAccessors(splitIn.spec, splitIn.xValueSums, FALSE,
                                                splitIn.smallMultiples)
  /\ UNCHANGED <<pc, splitIn, splitVislib, seriesCollection, keyVars, extractVars,
                 colorVars, aggVars,
                 otherVars>>

SplitVislib ==
  /\ splitVislib = None
  /\ splitVislib' = splitSeriesDataByAccessors(splitIn.spec, splitIn.xValueSums, TRUE,
                                               splitIn.smallMultiples)
  /\ UNCHANGED <<pc, splitIn, splitDefault, seriesCollection, keyVars, extractVars,
                 colorVars, aggVars,
                 otherVars>>

SplitNext == SplitDefault \/ SplitVislib

SpecSplit == SplitInit /\ [][SplitNext]_vars

\* ---- getDataSeriesFromSpecs: its loop over the specs, then its return
AggInit ==
  /\ pc = "loop"
  /\ aggIn \in AggInputs
  /\ specIndex = 0
  /\ globalDataSeries = <<>>
  /\ seriesCollection = <<>>
  /\ mutatedXValueSums = <<>>
  /\ globalXValues = <<>>
  /\ globalSMVValues = <<>>
  /\ globalSMHValues = <<>>
  /\ isNumberArray = TRUE
  /\ isOrdinalScale = FALSE
  /\ orderOrdinalBinsBy = None
  /\ aggOut = None
  /\ KeyIdle /\ ExtractIdle /\ ColorIdle /\ SplitIdle /\ OtherIdle

\* One pass of `for (const spec of seriesSpecs)`
AggSpec ==
  /\ pc = "loop"
  /\ specIndex < Len(aggIn.seriesSpecs)
  /\ \E spec \in {aggIn.seriesSpecs[specIndex + 1]} :
     \E split \in {splitSeriesDataByAccessors(spec, mutatedXValueSums,
                                              aggIn.enableVislibSeriesSort,
                                              aggIn.smallMultiples)} :
        /\ isOrdinalScale' = (isOrdinalScale \/ spec.xScaleType = "ordinal")
        /\ mutatedXValueSums' = split.xValueSums
        /\ globalDataSeries' = globalDataSeries
               \o FilterDeselected(MapValues(split.dataSeries), aggIn.deselectedDataSeries)
        /\ seriesCollection' = CollectSeries(seriesCollection, split.dataSeries, spec)
        /\ isNumberArray' = NumbersOnly(isNumberArray, split.xValues)
        /\ globalXValues' = SetAddAll(globalXValues, split.xValues)
        /\ globalSMVValues' = SetAddAll(globalSMVValues, split.smVValues)
        /\ globalSMHValues' = SetAddAll(globalSMHValues, split.smHValues)
  /\ specIndex' = specIndex + 1
  /\ UNCHANGED <<pc, aggIn, orderOrdinalBinsBy, aggOut, keyVars, extractVars, colorVars,
                 splitVars,
                 otherVars>>

\* The x domain is ordered and the results returned
AggReturn ==
  /\ pc = "loop"
  /\ specIndex = Len(aggIn.seriesSpecs)
  /\ \E orderBy \in OrderBys :
       /\ orderOrdinalBinsBy' = orderBy
       /\ aggOut' =
            [xValues |-> IF isOrdinalScale \/ ~isNumberArray
                         THEN getSortedOrdinalXValues(globalXValues, mutatedXValueSums,
                                                      orderBy)
                         ELSE SortedNumericXValues(globalXValues),
             fallbackScale |-> IF ~isOrdinalScale /\ ~isNumberArray THEN "ordinal"
                               ELSE "undefined"]
  /\ pc' = "returned"
  /\ UNCHANGED <<aggIn, specIndex, globalDataSeries, seriesCollection, mutatedXValueSums,
                 globalXValues, globalSMVValues, globalSMHValues, isNumberArray,
                 isOrdinalScale, keyVars, extractVars, colorVars, splitVars,
                 otherVars>>

AggNext == AggSpec \/ AggReturn

SpecAgg == AggInit /\ [][AggNext]_vars

\* ---- getSortedDataSeriesColorsValuesMap on one collection
SortInit ==
  /\ pc = "unsorted"
  /\ seriesCollection \in SortCollections
  /\ sortedCollection = None
  /\ KeyIdle /\ ExtractIdle /\ ColorIdle /\ SplitIdle /\ AggIdle /\ OrderIdle /\ NameIdle

SortCollection ==
  /\ pc = "unsorted"
  /\ sortedCollection' = getSortedDataSeriesColorsValuesMap(seriesCollection)
  /\ pc' = "sorted"
  /\ UNCHANGED <<seriesCollection, keyVars, extractVars, colorVars, splitVars, aggVars,
                 orderVars, nameVars>>

SortNext == SortCollection

SpecSort == SortInit /\ [][SortNext]_vars

\* ---- getSeriesName on one identifier
NameInit ==
  /\ pc = "unnamed"
  /\ nameIn \in NameInputs
  /\ nameOut = None
  /\ seriesCollection = None
  /\ KeyIdle /\ ExtractIdle /\ ColorIdle /\ SplitIdle /\ AggIdle /\ OrderIdle /\ SortIdle

\* isTooltip reaches a naming function only
NameSeries ==
  /\ pc = "unnamed"
  /\ \E isTooltip \in BOOLEAN :
       nameOut' = getSeriesName(nameIn.seriesIdentifier, nameIn.hasSingleSeries, isTooltip,
                                nameIn.spec)
  /\ pc' = "named"
  /\ UNCHANGED <<nameIn, seriesCollection, keyVars, extractVars, colorVars, splitVars,
                 aggVars, orderVars, sortVars>>

NameNext == NameSeries

SpecName == NameInit /\ [][NameNext]_vars

\* ---- getSortedOrdinalXValues on one domain
OrderInit ==
  /\ pc = "domain"
  /\ orderIn \in OrderInputs
  /\ orderOut = None
  /\ seriesCollection = None
  /\ KeyIdle /\ ExtractIdle /\ ColorIdle /\ SplitIdle /\ AggIdle /\ SortIdle /\ NameIdle

OrderDomain ==
  /\ pc = "domain"
  /\ orderOut' = getSortedOrdinalXValues(orderIn.xValues, orderIn.xValueSums,
                                         orderIn.orderOrdinalBinsBy)
  /\ pc' = "ordered"
  /\ UNCHANGED <<orderIn, seriesCollection, keyVars, extractVars, colorVars, splitVars,
                 aggVars, sortVars, nameVars>>

OrderNext == OrderDomain

SpecOrder == OrderInit /\ [][OrderNext]_vars

(***************************************************************************)
(* Claims                                                                  *)
(***************************************************************************)
\* The split-accessor maps hold the same key/value pairs
SameMapping(m1, m2) == MapEntries(m1) = MapEntries(m2)

SameGroupingFields(a, b) ==
  /\ a.groupId = b.groupId
  /\ a.specId = b.specId
  /\ a.yAccessor = b.yAccessor
  /\ SameMapping(a.splitAccessors, b.splitAccessors)
  /\ a.smVerticalAccessorValue = b.smVerticalAccessorValue
  /\ a.smHorizontalAccessorValue = b.smHorizontalAccessorValue

\* C1: two identifiers that differ in a grouping field (group id, spec id,
\* y-accessor, split-accessor mapping, vertical or horizontal panel value)
\* get different keys.
C1_KeyInjective ==
  (pc = "keys" /\ ~SameGroupingFields(idA, idB)) => keyA # keyB

\* C2: two identifiers with equal grouping fields whose split-accessor maps
\* hold the same pairs, inserted in whatever order, get the same key.
C2_KeyOrderIndependent ==
  (pc = "keys" /\ SameGroupingFields(idA, idB)) => keyA = keyB

\* C3: every key of the collection resolves by strict precedence: the
\* temporary override if present, else the custom colour if present, else the
\* persisted override if present, else a colour of the palette (colours are
\* non-empty strings).
C3_ColorPrecedence ==
  pc = "colors" =>
    /\ MapKeys(seriesColorMap) = MapKeys(seriesCollection)
    /\ \A key \in MapKeys(seriesCollection) :
         LET color == MapGet(seriesColorMap, key)
         IN IF MapHas(colorIn.overrides.temporary, key)
              THEN color = MapGet(colorIn.overrides.temporary, key)
            ELSE IF MapHas(colorIn.customColors, key)
              THEN color = MapGet(colorIn.customColors, key)
            ELSE IF MapHas(colorIn.overrides.persisted, key)
              THEN color = MapGet(colorIn.overrides.persisted, key)
            ELSE color \in Range(colorIn.chartColors.vizColors)

\* C3 witness: a key with a persisted override and a custom colour, and no
\* temporary override, resolved to the custom colour
C3_Witness ==
  /\ pc = "colors"
  /\ \E key \in MapKeys(seriesCollection) :
       /\ MapHas(colorIn.overrides.persisted, key)
       /\ MapHas(colorIn.customColors, key)
       /\ ~MapHas(colorIn.overrides.temporary, key)
       /\ MapGet(seriesColorMap, key) = CustomColor

\* ---- claims about the splitter
\* The claim's drop condition for a record of a spec
DropCondition(spec, datum) ==
  \/ datum.t # "object"
  \/ TypeOf(GetField(datum, spec.xAccessor)) \notin {"string", "number"}
  \/ /\ spec.splitSeriesAccessors # <<>>
     /\ \A i \in 1..Len(spec.splitSeriesAccessors) :
          TypeOf(GetField(datum, spec.splitSeriesAccessors[i])) \notin {"string", "number"}

\* The data held by all series of a result, as one count
DatumCount(out) ==
  LET cnt[i \in 0..Len(out.dataSeries)] ==
        IF i = 0 THEN 0 ELSE cnt[i - 1] + Len(out.dataSeries[i].v.data)
  IN cnt[Len(out.dataSeries)]

\* What the result shows of the loop: nothing of the offenders list
Shown(out) ==
  [dataSeries |-> out.dataSeries, xValues |-> out.xValues, smVValues |-> out.smVValues,
   smHValues |-> out.smHValues, xValueSums |-> out.xValueSums]

\* C5: in the default branch a record is dropped (no datum, no x value, no
\* panel value, x-sum map untouched) exactly when it is not an object, or its
\* x is neither string nor number, or split accessors are configured and none
\* resolves; any other record is kept: its x is appended and one datum per
\* y-accessor is added.
C5_DropPolicy ==
  splitDefault # None =>
    LET spec == splitIn.spec
        After(i) == DefaultLoop(spec, splitIn.xValueSums, splitIn.smallMultiples, i)
    IN /\ splitDefault = After(Len(spec.data))
       /\ \A i \in 1..Len(spec.data) :
            IF DropCondition(spec, spec.data[i])
            THEN Shown(After(i)) = Shown(After(i - 1))
            ELSE /\ After(i).xValues
                      = Append(After(i - 1).xValues, GetField(spec.data[i], spec.xAccessor))
                 /\ DatumCount(After(i)) = DatumCount(After(i - 1)) + Len(spec.yAccessors)
                 /\ MapHas(After(i).xValueSums, GetField(spec.data[i], spec.xAccessor))

\* C5 witness: a kept record followed by a record dropped only because its
\* split accessor does not resolve
C5_Witness ==
  /\ splitDefault # None
  /\ Len(splitIn.spec.data) = 2
  /\ ~DropCondition(splitIn.spec, splitIn.spec.data[1])
  /\ DropCondition(splitIn.spec, splitIn.spec.data[2])
  /\ splitIn.spec.data[2].t = "object"
  /\ PrimitiveKey(GetField(splitIn.spec.data[2], splitIn.spec.xAccessor))
  /\ Len(splitDefault.xValues) = 1

\* One y-accessor, no split accessors, no panel functions
PlainSpec ==
  /\ Len(splitIn.spec.yAccessors) = 1
  /\ splitIn.spec.splitSeriesAccessors = <<>>
  /\ splitIn.smallMultiples = [vertical |-> Undef, horizontal |-> Undef]

\* The records that are objects with a string or number x
ValidRecords(spec) ==
  {i \in 1..Len(spec.data) :
     /\ spec.data[i].t = "object"
     /\ TypeOf(GetField(spec.data[i], spec.xAccessor)) \in {"string", "number"}}

\* C6 as stated: a plain spec yields exactly one series for any dataset, and
\* its data length is the number of valid records.
C6_ExactlyOneSeries ==
  (splitDefault # None /\ PlainSpec) =>
    /\ Len(splitDefault.dataSeries) = 1
    /\ Len(splitDefault.dataSeries[1].v.data) = Cardinality(ValidRecords(splitIn.spec))

\* C6 amended: a plain spec yields one series when at least one record is
\* valid, with as many data as valid records, and no series otherwise.
C6_OneSeriesIfAnyValid ==
  (splitDefault # None /\ PlainSpec) =>
    IF ValidRecords(splitIn.spec) = {}
    THEN splitDefault.dataSeries = <<>>
    ELSE /\ Len(splitDefault.dataSeries) = 1
         /\ Len(splitDefault.dataSeries[1].v.data) = Cardinality(ValidRecords(splitIn.spec))

\* C6 witness: a plain spec with a valid and an invalid record was split
C6_Witness ==
  /\ splitDefault # None
  /\ PlainSpec
  /\ Len(splitIn.spec.data) = 2
  /\ Cardinality(ValidRecords(splitIn.spec)) = 1
  /\ Len(splitDefault.dataSeries) = 1

\* The number of times e occurs in a list
Occurrences(list, e) == Cardinality({i \in 1..Len(list) : list[i] = e})

SameMultiset(l1, l2) ==
  /\ Len(l1) = Len(l2)
  /\ \A e \in Range(l1) \cup Range(l2) : Occurrences(l1, e) = Occurrences(l2, e)

\* Both modes give the same series, data, sums and panel sets
SameSeriesAndSums ==
  /\ MapEntries(splitDefault.dataSeries) = MapEntries(splitVislib.dataSeries)
  /\ MapEntries(splitDefault.xValueSums) = MapEntries(splitVislib.xValueSums)
  /\ Range(splitDefault.smVValues) = Range(splitVislib.smVValues)
  /\ Range(splitDefault.smHValues) = Range(splitVislib.smHValues)

\* C7 as stated: with the legacy sort flag on and off the splitter gives the
\* same series keys, the same data per key, the same x-sum map, the same list
\* of x values as a multiset, and the same panel-value sets.
C7_SameUpToOrder ==
  (splitDefault # None /\ splitVislib # None) =>
    /\ SameSeriesAndSums
    /\ SameMultiset(splitDefault.xValues, splitVislib.xValues)

\* C7 amended: the same series keys, data per key, x-sum map and panel-value
\* sets; the legacy branch lists each kept x once per y-accessor where the
\* default branch lists it once per record, so the x lists agree as sets.
C7_SameUpToOrderAndRepeats ==
  (splitDefault # None /\ splitVislib # None) =>
    /\ SameSeriesAndSums
    /\ Range(splitDefault.xValues) = Range(splitVislib.xValues)
    /\ \A e \in Range(splitDefault.xValues) :
         Occurrences(splitVislib.xValues, e)
           = Len(splitIn.spec.yAccessors) * Occurrences(splitDefault.xValues, e)

\* C7 witness: both modes ran on two y-accessors and the series came out in
\* different orders
C7_Witness ==
  /\ splitDefault # None
  /\ splitVislib # None
  /\ Len(splitIn.spec.yAccessors) = 2
  /\ splitDefault.dataSeries # splitVislib.dataSeries
  /\ splitIn.xValueSums # <<>>

\* What the claim says one raw field becomes: null for null, undefined and
\* not-a-number conversions, the numeric conversion otherwise
Coerced(raw) ==
  IF isNil(raw) \/ ToNumber(raw).nan THEN Null ELSE N(ToNumber(raw).n)

\* The raw value when the claim says it is an offender, as a list
Offender(raw) == IF ~isNil(raw) /\ ToNumber(raw).nan THEN <<raw>> ELSE <<>>

\* The raw fields read, in the order mark, y, y0 (an absent accessor reads nothing)
RawMark(a) == IF a.markSizeAccessor = Undef THEN Undef ELSE GetField(a.datum, a.markSizeAccessor)

RawY0(a) == IF a.y0Accessor = Undef THEN Undef ELSE GetField(a.datum, a.y0Accessor)

RawY(a) == GetField(a.datum, a.yAccessor)

\* C4: extraction yields number-or-null for y, y0 and mark: null for a null or
\* undefined raw value (offenders unchanged), null for a not-a-number
\* conversion (the raw value appended to the offenders), the numeric conversion
\* otherwise (offenders unchanged); the record itself is always returned.
C4_ExtractCoerces ==
  pc = "extracted" =>
    /\ extractOut.d.y1 = Coerced(RawY(extractIn))
    /\ extractOut.d.y0 = Coerced(RawY0(extractIn))
    /\ extractOut.d.mark = Coerced(RawMark(extractIn))
    /\ extractOut.d.initialY1 = extractOut.d.y1
    /\ extractOut.d.initialY0 = extractOut.d.y0
    /\ extractOut.d.datum = extractIn.datum
    /\ extractOut.nn = extractIn.nonNumericValues \o Offender(RawMark(extractIn))
                         \o Offender(RawY(extractIn)) \o Offender(RawY0(extractIn))

\* C4 witness: a record whose y is not numeric and whose y0 is null was extracted
C4_Witness ==
  /\ pc = "extracted"
  /\ RawY(extractIn) = S(<<"b", "a", "d">>)
  /\ RawY0(extractIn) = Null
  /\ extractIn.y0Accessor # Undef
  /\ extractOut.d.y1 = Null
  /\ extractOut.nn = extractIn.nonNumericValues \o <<S(<<"b", "a", "d">>)>>

\* ---- claims about getDataSeriesFromSpecs
DeselectedKeys ==
  {aggIn.deselectedDataSeries[i].key : i \in 1..Len(aggIn.deselectedDataSeries)}

\* The series splitting the i-th spec produces, in encounter order
ProducedBy(i) ==
  MapValues(splitSeriesDataByAccessors(aggIn.seriesSpecs[i], <<>>,
                                       aggIn.enableVislibSeriesSort,
                                       aggIn.smallMultiples).dataSeries)

\* The series of the first i specs that are not deselected, in spec order then
\* encounter order
SelectedUpTo(i) ==
  LET upTo[k \in 0..i] ==
        IF k = 0 THEN <<>>
        ELSE upTo[k - 1] \o SelectSeq(ProducedBy(k), LAMBDA s : s.key \notin DeselectedKeys)
  IN upTo[i]

ProducedKeys ==
  UNION {{ProducedBy(i)[j].key : j \in 1..Len(ProducedBy(i))} :
           i \in 1..Len(aggIn.seriesSpecs)}

ReturnedKeys == {globalDataSeries[i].key : i \in 1..Len(globalDataSeries)}

\* C8: the list returned holds, in spec order then per-spec encounter order,
\* exactly the series produced by splitting each spec whose key is the key of
\* no deselected identifier.
C8_ReturnedSeries ==
  pc = "returned" => globalDataSeries = SelectedUpTo(Len(aggIn.seriesSpecs))

\* C8 witness: two specs were split into three series, one of them deselected
\* and two returned
C8_Witness ==
  /\ pc = "returned"
  /\ Len(aggIn.seriesSpecs) = 2
  /\ Cardinality(ProducedKeys) = 3
  /\ Cardinality(ProducedKeys \cap DeselectedKeys) = 1
  /\ Len(globalDataSeries) = 2

KeptXValues ==
  LET KeptOf(spec) ==
        LET kept[k \in 0..Len(spec.data)] ==
              IF k = 0 THEN <<>>
              ELSE IF DropCondition(spec, spec.data[k]) THEN kept[k - 1]
              ELSE Append(kept[k - 1], GetField(spec.data[k], spec.xAccessor))
        IN kept[Len(spec.data)]
      upTo[i \in 0..Len(aggIn.seriesSpecs)] ==
        IF i = 0 THEN <<>> ELSE upTo[i - 1] \o KeptOf(aggIn.seriesSpecs[i])
  IN upTo[Len(aggIn.seriesSpecs)]

\* A list without its repeats, each value at its first place
FirstSeen(list) ==
  LET seen[k \in 0..Len(list)] ==
        IF k = 0 THEN <<>>
        ELSE IF list[k] \in Range(seen[k - 1]) THEN seen[k - 1]
        ELSE Append(seen[k - 1], list[k])
  IN seen[Len(list)]

AnyOrdinalSpec ==
  \E i \in 1..Len(aggIn.seriesSpecs) : aggIn.seriesSpecs[i].xScaleType = "ordinal"

AllNumbers == \A i \in 1..Len(KeptXValues) : TypeOf(KeptXValues[i]) = "number"

\* No number of the list comes after a greater number
AscendingNumbers(list) ==
  \A i, j \in 1..Len(list) :
    (i < j /\ list[i].t = "number" /\ list[j].t = "number") => list[i].n < list[j].n

\* C10: the x domain returned is the kept x values without repeats; in
\* ascending numeric order if no spec is ordinal and every x is a number; in
\* first-seen order if a spec is ordinal or an x is not a number, and no
\* ordering policy is given.
C10_DomainOrder ==
  pc = "returned" =>
    /\ Range(aggOut.xValues) = Range(KeptXValues)
    /\ Len(aggOut.xValues) = Cardinality(Range(KeptXValues))
    /\ (~AnyOrdinalSpec /\ AllNumbers) => AscendingNumbers(aggOut.xValues)
    /\ ((AnyOrdinalSpec \/ ~AllNumbers) /\ orderOrdinalBinsBy = Undef)
         => aggOut.xValues = FirstSeen(KeptXValues)

\* The same property of the calls in which no x value is NaN
C10_DomainOrderWithoutNaN ==
  (pc = "returned" /\ NaN \notin Range(KeptXValues)) => C10_DomainOrder

\* ---- claims about getSortedOrdinalXValues
\* The sum the map holds for an x value, 0 when it holds none
AccumulatedSum(x) ==
  LET at == {i \in 1..Len(orderIn.xValueSums) : orderIn.xValueSums[i].k = x}
  IN IF at = {} THEN 0 ELSE orderIn.xValueSums[CHOOSE i \in at : TRUE].v

\* C11: with no policy or aggregation kind none the domain comes back in its
\* first-encountered order; with any other kind it comes back as a
\* permutation whose accumulated sums (0 when missing) are non-decreasing for
\* direction ascending and non-increasing for any other direction.
C11_OrdinalOrder ==
  pc = "ordered" =>
    IF orderIn.orderOrdinalBinsBy = Undef THEN orderOut = orderIn.xValues
    ELSE IF orderIn.orderOrdinalBinsBy.binAgg = "none" THEN orderOut = orderIn.xValues
    ELSE /\ Len(orderOut) = Len(orderIn.xValues)
         /\ Range(orderOut) = Range(orderIn.xValues)
         /\ \A i, j \in 1..Len(orderOut) :
              i < j =>
                IF orderIn.orderOrdinalBinsBy.direction = "ascending"
                THEN AccumulatedSum(orderOut[i]) <= AccumulatedSum(orderOut[j])
                ELSE AccumulatedSum(orderOut[i]) >= AccumulatedSum(orderOut[j])

\* C11 witness: the domain ["c", "a", "b"] with sums {a: 10, b: 5, c: 1} and
\* the policy {sum, ascending} came back as ["c", "b", "a"]
C11_Witness ==
  /\ pc = "ordered"
  /\ orderIn.xValues = <<S(<<"c">>), S(<<"a">>), S(<<"b">>)>>
  /\ orderIn.xValueSums = <<[k |-> S(<<"a">>), v |-> 10], [k |-> S(<<"b">>), v |-> 5],
                             [k |-> S(<<"c">>), v |-> 1]>>
  /\ orderIn.orderOrdinalBinsBy
       = [t |-> "object", binAgg |-> "sum", direction |-> "ascending"]
  /\ orderOut = <<S(<<"c">>), S(<<"b">>), S(<<"a">>)>>

\* ---- claims about getSortedDataSeriesColorsValuesMap
HasSortIndex(entry) == ~isNil(entry.v.specSortIndex)

\* C12: the sorted map has the entries of the input; every series with no
\* explicit sort index comes after all series that have one, whatever the
\* indices; the series with explicit indices are in non-decreasing index order.
C12_UnindexedLast ==
  pc = "sorted" =>
    /\ Len(sortedCollection) = Len(seriesCollection)
    /\ Range(sortedCollection) = Range(seriesCollection)
    /\ \A i, j \in 1..Len(sortedCollection) :
         i < j =>
           /\ ~(~HasSortIndex(sortedCollection[i]) /\ HasSortIndex(sortedCollection[j]))
           /\ (HasSortIndex(sortedCollection[i]) /\ HasSortIndex(sortedCollection[j]))
                => sortedCollection[i].v.specSortIndex.n
                     <= sortedCollection[j].v.specSortIndex.n

\* The same property of the collections whose explicit indices are all below
\* the collection's size
C12_UnindexedLastBelowSize ==
  (pc = "sorted"
     /\ \A i \in 1..Len(seriesCollection) :
          HasSortIndex(seriesCollection[i])
            => seriesCollection[i].v.specSortIndex.n < Len(seriesCollection))
    => C12_UnindexedLast

\* ---- claims about the panel values of the splitter
\* What the claim says is recorded for an axis: the sentinel with no panel
\* function or a nil result, the function's result otherwise
ClaimedPanelValue(by, datum) ==
  IF by = Undef THEN DEFAULT_SINGLE_PANEL_SM_VALUE
  ELSE IF isNil(GetField(datum, by)) THEN DEFAULT_SINGLE_PANEL_SM_VALUE
  ELSE GetField(datum, by)

\* The series and data of a result carry the panel values Panel(by, datum) gives
PanelValuesAre(out, Panel(_, _)) ==
  \A i \in 1..Len(out.dataSeries) :
    LET series == out.dataSeries[i].v
    IN \A j \in 1..Len(series.data) :
         LET d == series.data[j]
             h == Panel(splitIn.smallMultiples.horizontal, d.datum)
             v == Panel(splitIn.smallMultiples.vertical, d.datum)
         IN /\ d.smH = h
            /\ d.smV = v
            /\ series.smHorizontalAccessorValue = h
            /\ series.smVerticalAccessorValue = v

\* The panel values Panel gives for the kept records, per axis
PanelsOfKept(out, Panel(_, _), by) ==
  UNION {{Panel(by, out.dataSeries[i].v.data[j].datum) :
            j \in 1..Len(out.dataSeries[i].v.data)} : i \in 1..Len(out.dataSeries)}

ReturnedPanelValue(by, datum) ==
  IF by = Undef THEN DEFAULT_SINGLE_PANEL_SM_VALUE ELSE GetField(datum, by)

DefaultNaming ==
  /\ pc = "named"
  /\ nameIn.spec # Undef
  /\ TypeOf(nameIn.spec.name) \in {"undefined", "string"}

\* The split values of the identifier: its series keys but the last
SplitValues == SubSeq(nameIn.seriesIdentifier.seriesKeys, 1,
                      Len(nameIn.seriesIdentifier.seriesKeys) - 1)

\* The values joined by " - "
Dashed(values) ==
  LET joined[k \in 0..Len(values)] ==
        IF k = 0 THEN <<>>
        ELSE IF k = 1 THEN ToStr(values[1])
        ELSE joined[k - 1] \o <<" ", "-", " ">> \o ToStr(values[k])
  IN S(joined[Len(values)])

\* The spec's name when it is a string, its id otherwise
NameOrId ==
  IF TypeOf(nameIn.spec.name) = "string" THEN nameIn.spec.name
  ELSE S(ToStr(nameIn.spec.id))

\* C14 as stated: by default a spec with more than one y-accessor names a
\* series by all its series keys joined by " - "; a spec with one y-accessor
\* by its split values joined by " - ", or by the spec's name or id when
\* there is no split value.
C14_DefaultName ==
  DefaultNaming =>
    IF Len(nameIn.spec.yAccessors) > 1
      THEN nameOut = Dashed(nameIn.seriesIdentifier.seriesKeys)
    ELSE IF SplitValues # <<>> THEN nameOut = Dashed(SplitValues)
    ELSE nameOut = NameOrId

\* C14 amended: as stated, except that a spec with more than one y-accessor
\* and no split-series accessors names its series by the spec's name or id
\* when the has-single-series flag is set.
C14_DefaultNameUnlessSingle ==
  DefaultNaming =>
    IF Len(nameIn.spec.yAccessors) > 1
      THEN IF nameIn.hasSingleSeries /\ nameIn.spec.splitSeriesAccessors = Undef
           THEN nameOut = NameOrId
           ELSE nameOut = Dashed(nameIn.seriesIdentifier.seriesKeys)
    ELSE IF SplitValues # <<>> THEN nameOut = Dashed(SplitValues)
    ELSE nameOut = NameOrId

\* C14 witness: the series keys ["red", "line1"] of a spec with one y-accessor
\* were named "red" with the has-single-series flag set
C14_Witness ==
  /\ DefaultNaming
  /\ nameIn.seriesIdentifier.seriesKeys = <<Red, Line1>>
  /\ Len(nameIn.spec.yAccessors) = 1
  /\ nameIn.hasSingleSeries
  /\ nameOut = Red

\* A spec is given whose name is naming options with rules
OptionsNaming ==
  /\ pc = "named"
  /\ nameIn.spec # Undef
  /\ TypeOf(nameIn.spec.name) = "object"
  /\ nameIn.spec.name.names # Undef

NamingRules == nameIn.spec.name.names.items

OptionsDelimiter == Coalesce(nameIn.spec.name.delimiter, S(<<" ", "-", " ">>))

\* Rule i is evaluated before rule j: its priority is lower, a rule without
\* priority coming after those that have one, and written order deciding
\* between equal priorities
EvaluatedBefore(i, j) ==
  LET a == NamingRules[i].sortIndex
      b == NamingRules[j].sortIndex
  IN IF a # Undef /\ b # Undef THEN a.n < b.n \/ (a.n = b.n /\ i < j)
     ELSE IF a = Undef /\ b = Undef THEN i < j
     ELSE b = Undef

\* The rules in the order they are evaluated
InPriorityOrder ==
  [k \in 1..Len(NamingRules) |->
     NamingRules[CHOOSE i \in 1..Len(NamingRules) :
                   Cardinality({j \in 1..Len(NamingRules) : EvaluatedBefore(j, i)}) = k - 1]]

\* The rule's value is the identifier's split value for the rule's accessor
\* (null standing for no split value)
MatchesSplitValue(rule) ==
  LET at == {i \in 1..Len(nameIn.seriesIdentifier.splitAccessors) :
               nameIn.seriesIdentifier.splitAccessors[i].k = rule.accessor}
  IN IF at = {} THEN rule.value = Null
     ELSE nameIn.seriesIdentifier.splitAccessors[CHOOSE i \in at : TRUE].v = rule.value

RuleMatches(rule) ==
  MatchesSplitValue(rule) \/ rule.accessor = nameIn.seriesIdentifier.yAccessor

\* The label of a matching rule: its name, else the value or accessor matched
LabelOf(rule) ==
  IF rule.name # Undef /\ rule.name # Null THEN rule.name
  ELSE IF MatchesSplitValue(rule) THEN rule.value
  ELSE rule.accessor

\* The name default naming gives, joined by the options' delimiter
FallbackName ==
  DefaultName(nameIn.seriesIdentifier, nameIn.hasSingleSeries, nameIn.spec, OptionsDelimiter)

\* C15 as stated: the rules are evaluated in ascending priority, rules without
\* a priority last; the first matching rule gives the name; when no rule
\* matches default naming is used.
C15_FirstMatchWins ==
  OptionsNaming =>
    LET matching == SelectSeq(InPriorityOrder, RuleMatches)
    IN IF matching = <<>> THEN nameOut = FallbackName
       ELSE nameOut = S(ToStr(LabelOf(matching[1])))

\* The labels joined by the delimiter
Delimited(labels) ==
  LET joined[k \in 0..Len(labels)] ==
        IF k = 0 THEN <<>>
        ELSE IF k = 1 THEN ToStr(labels[1])
        ELSE joined[k - 1] \o OptionsDelimiter.s \o ToStr(labels[k])
  IN S(joined[Len(labels)])

\* C15 amended: the rules are evaluated in ascending priority, rules without
\* a priority last; the labels of all matching rules, empty labels left out,
\* are joined by the delimiter in that order; when no label is left default
\* naming is used, with the options' delimiter.
C15_AllMatchesJoined ==
  OptionsNaming =>
    LET matching == SelectSeq(InPriorityOrder, RuleMatches)
        labels == SelectSeq([i \in 1..Len(matching) |-> LabelOf(matching[i])],
                            LAMBDA d : d \notin {Null, Undef, S(<<>>)})
    IN IF labels = <<>> THEN nameOut = FallbackName
       ELSE nameOut = Delimited(labels)

\* C15 witness: a rule without priority named "A" written before a rule of
\* priority 0 named "B", both matching, gave the name "B - A"
C15_Witness ==
  /\ OptionsNaming
  /\ NamingRules = <<Rule(S(F_g), Red, S(<<"A">>), Undef), Rule(Line1, Undef, S(<<"B">>), N(0))>>
  /\ nameIn.spec.name.delimiter = Undef
  /\ nameIn.seriesIdentifier.splitAccessors = <<[k |-> S(F_g), v |-> Red]>>
  /\ nameIn.seriesIdentifier.yAccessor = Line1
  /\ nameOut = S(<<"B", " ", "-", " ", "A">>)

=============================================================================
